---- MODULE Spec2Model ----
(***************************************************************************)
(* Model of src/data/tles/telescope_optimizer.py: the night-pass detector  *)
(* (find_night_passes_fast), the recalibration-aware scheduler             *)
(* (schedule_observations), the greedy site optimizer (optimize_greedy)    *)
(* and the multi-day aggregator (run_multi_day_analysis).                  *)
(*                                                                         *)
(* Units.  All times are integers counted in minutes.  The source keeps a  *)
(* time as a pair (jd, fr) of a day number and a day fraction and uses the *)
(* sum jd + fr; here jd counts days, fr counts minutes of the day and the  *)
(* sum is jd * DayMin + fr.  The source day of 1440 minutes is scaled down *)
(* to DayMin minutes, the 30 minute recalibration time to                  *)
(* RECALIBRATION_TIME_MIN minutes; the 2 minute scan step is kept.         *)
(* Elevations are integers in degrees.  The geometry (sgp4, gmst, the sun  *)
(* ephemeris) is the environment: what is_night and the elevation          *)
(* computation return at a sample is an input of the model.                *)
(***************************************************************************)
EXTENDS Integers, Sequences, FiniteSets, TLC

(* ------------------------------ bounds -------------------------------- *)
NumSats == 2      \* len(satellites)
DayMin == 6       \* minutes per day (1440 in the source)
NumElev == 2      \* elevations range over MIN_ELEVATION_DEG .. MIN_ELEVATION_DEG + NumElev
MaxPasses == 3    \* longest pass list handed to schedule_observations on its own
MaxTime == 3      \* latest peak time of such a pass
MaxRecal == 3     \* largest recal_min of such a call
NumStations == 2  \* len(stations) of run_multi_day_analysis
NumDays == 2      \* num_days
NumCatalog == 3   \* len(satellites) of optimize_greedy
MaxCands == 3     \* longest candidates list of optimize_greedy
MaxK == 3         \* largest num_stations of optimize_greedy

(* ------------------------- program constants -------------------------- *)
MIN_ELEVATION_DEG == 10
RECALIBRATION_TIME_MIN == 4
step_min == 2

Sats == 0 .. NumSats - 1
Elevs == MIN_ELEVATION_DEG .. MIN_ELEVATION_DEG + NumElev

(* What the propagation and the elevation computation give at one sample:  *)
(* the sgp4 error code e and, when e = 0, the elevation.                   *)
Outcomes == {[e |-> 1, elev |-> 0]} \cup {[e |-> 0, elev |-> v] : v \in Elevs}

(* jd + fr *)
JdFr(j, f) == j * DayMin + f

(* duration_jd = duration_hours / 24.0, in minutes *)
duration_jd(duration_hours) == (duration_hours * DayMin) \div 24

(* The sample times of the window that starts at day start_jd. *)
Grid(start_jd, duration_hours) ==
    {JdFr(start_jd, 0) + j * step_min : j \in {i \in 0 .. DayMin : i * step_min < duration_jd(duration_hours)}}

(* sat_ecef at a sample: the position of satellite s at time t. *)
sat_ecef(s, t) == <<s, t>>
zeros == <<>>

(* ===================== find_night_passes_fast ========================= *)
(* A pass is the tuple (sat_idx, peak_time_jd, peak_elevation, peak_pos).  *)
(* L is the record of the loop's locals.                                   *)

(* mutant of AboveMin: the comparison written as >= *)
AtOrAboveMin(elev) == elev >= MIN_ELEVATION_DEG

AboveMin(elev) == elev > MIN_ELEVATION_DEG

(* fr += step_jd; if fr >= 1.0: jd += 1; fr -= 1.0 *)
Advance(L) ==
    LET f == L.fr + step_min
    IN  IF f >= DayMin THEN [L EXCEPT !.jd = @ + 1, !.fr = f - DayMin]
        ELSE [L EXCEPT !.fr = f]

ThePass(L, s) == <<s, L.pass_peak_time, L.pass_peak_elev, L.pass_peak_pos>>

(* mutant of NotNightStep: the open pass is carried over the sample *)
NotNightKeepsPass(L, s) == Advance(L)

(* the branch of a sample at which the site is not dark *)
NotNightStep(L, s) ==
    Advance(IF L.in_pass
            THEN [L EXCEPT !.passes = IF AboveMin(L.pass_peak_elev)
                                      THEN Append(@, ThePass(L, s)) ELSE @,
                           !.in_pass = FALSE]
            ELSE L)

(* mutant of PropFailStep: "break" in place of "continue", the while loop is left *)
PropFailBreak(L, s) == [L EXCEPT !.jd = @ + 1, !.fr = 0]

(* the branch of a dark sample at which sgp4 returns e != 0 *)
PropFailStep(L, s) == Advance(L)

RecordPeak(L, s, elev) ==
    [L EXCEPT !.pass_peak_elev = elev,
              !.pass_peak_time = JdFr(L.jd, L.fr),
              !.pass_peak_pos = sat_ecef(s, JdFr(L.jd, L.fr))]

(* mutant of ExceedsPeak: the comparison written as >= *)
ReachesPeak(elev, peak) == elev >= peak

ExceedsPeak(elev, peak) == elev > peak

(* the branch of a dark sample with a propagated position *)
ElevStep(L, s, elev) ==
    Advance(IF AboveMin(elev)
            THEN IF ~L.in_pass THEN [RecordPeak(L, s, elev) EXCEPT !.in_pass = TRUE]
                 ELSE IF ExceedsPeak(elev, L.pass_peak_elev) THEN RecordPeak(L, s, elev)
                 ELSE L
            ELSE IF L.in_pass
                 THEN [L EXCEPT !.passes = Append(@, ThePass(L, s)), !.in_pass = FALSE]
                 ELSE L)

(* mutant of LoopBody: the is_night test left out *)
LoopBodyNoNightCheck(L, s, night, out) ==
    IF out.e # 0 THEN PropFailStep(L, s) ELSE ElevStep(L, s, out.elev)

(* one iteration of the while loop *)
LoopBody(L, s, night, out) ==
    IF ~night THEN NotNightStep(L, s)
    ELSE IF out.e # 0 THEN PropFailStep(L, s)
    ELSE ElevStep(L, s, out.elev)

(* mutant of InWindow: the loop stops one step before the end of the window *)
InWindowShort(L, start_jd, duration_hours) ==
    JdFr(L.jd, L.fr) + step_min < JdFr(start_jd, 0) + duration_jd(duration_hours)

(* while jd + fr < start_jd + duration_jd *)
InWindow(L, start_jd, duration_hours) ==
    JdFr(L.jd, L.fr) < JdFr(start_jd, 0) + duration_jd(duration_hours)

(* the locals at the top of the for-loop body *)
SatLocals(ps, start_jd) ==
    [jd |-> start_jd, fr |-> 0, in_pass |-> FALSE, pass_peak_elev |-> 0,
     pass_peak_time |-> 0, pass_peak_pos |-> zeros, passes |-> ps]

(* mutant of EndOpenPass: the block after the while loop left out *)
EndOpenPassSkipped(L, s) == L.passes

(* "End any open pass" *)
EndOpenPass(L, s) ==
    IF L.in_pass /\ AboveMin(L.pass_peak_elev) THEN Append(L.passes, ThePass(L, s))
    ELSE L.passes

RECURSIVE ScanLoop(_, _, _, _, _, _)
ScanLoop(L, s, night, sky, start_jd, duration_hours) ==
    IF InWindow(L, start_jd, duration_hours)
    THEN ScanLoop(LoopBody(L, s, night[JdFr(L.jd, L.fr)], sky[s][JdFr(L.jd, L.fr)]),
                  s, night, sky, start_jd, duration_hours)
    ELSE L

(* the sample times jd + fr at which the while loop runs its body, from L on *)
RECURSIVE SamplesFrom(_, _, _)
SamplesFrom(L, start_jd, duration_hours) ==
    IF InWindow(L, start_jd, duration_hours)
    THEN {JdFr(L.jd, L.fr)} \cup SamplesFrom(Advance(L), start_jd, duration_hours)
    ELSE {}

RECURSIVE ScanSats(_, _, _, _, _, _)
ScanSats(ps, s, night, sky, start_jd, duration_hours) ==
    IF s >= NumSats THEN ps
    ELSE ScanSats(EndOpenPass(ScanLoop(SatLocals(ps, start_jd), s, night, sky,
                                       start_jd, duration_hours), s),
                  s + 1, night, sky, start_jd, duration_hours)

(* night: sample time -> is_night(station, jd, fr); sky: satellite -> sample time -> outcome *)
find_night_passes_fast(night, sky, start_jd, duration_hours) ==
    ScanSats(<<>>, 0, night, sky, start_jd, duration_hours)

(* ======================= schedule_observations ======================== *)
Abs(x) == IF x < 0 THEN -x ELSE x

(* mutant of SortKey: the sign of the key dropped, an ascending sort *)
SortKeyAscending(p) == p[3]

(* sorted(passes, key=lambda x: -x[2]): a stable sort, so a pass goes behind  *)
(* every pass already placed whose key is not larger than its own.         *)
SortKey(p) == -p[3]

(* mutant of InsertByKey: a pass goes in front of the passes of equal key *)
RECURSIVE InsertBeforeTies(_, _)
InsertBeforeTies(s, p) ==
    IF s = <<>> THEN <<p>>
    ELSE IF SortKey(Head(s)) < SortKey(p) THEN <<Head(s)>> \o InsertBeforeTies(Tail(s), p)
    ELSE <<p>> \o s

RECURSIVE InsertByKey(_, _)
InsertByKey(s, p) ==
    IF s = <<>> THEN <<p>>
    ELSE IF SortKey(Head(s)) <= SortKey(p) THEN <<Head(s)>> \o InsertByKey(Tail(s), p)
    ELSE <<p>> \o s

(* mutant of sorted: the list is taken in the order given *)
sortedAsGiven(ps) == ps

RECURSIVE sorted(_)
sorted(ps) ==
    IF ps = <<>> THEN <<>>
    ELSE InsertByKey(sorted(SubSeq(ps, 1, Len(ps) - 1)), ps[Len(ps)])

(* mutant of TooClose: abs() left out, only an earlier observation counts *)
TooCloseOneSided(peak_time, obs_time, recal) ==
    peak_time >= obs_time /\ peak_time - obs_time < recal

(* mutant of TooClose: the comparison written as <= *)
TooCloseOrEqual(peak_time, obs_time, recal) == Abs(peak_time - obs_time) <= recal

(* abs(peak_time - obs_time) < recal_jd *)
TooClose(peak_time, obs_time, recal) == Abs(peak_time - obs_time) < recal

(* the inner for loop over obs_times *)
SlotFree(peak_time, times, recal) ==
    \A i \in 1 .. Len(times) : ~TooClose(peak_time, times[i], recal)

(* mutant of AlreadyObserved: the test against observed_sats left out *)
AlreadyObservedUnchecked(s, observed) == FALSE

AlreadyObserved(s, observed) == s \in observed

(* one iteration of "for sat_idx, peak_time, peak_elev, peak_pos in sorted_passes"; *)
(* S is the record of scheduled, observed_sats and obs_times.               *)
Examine(S, p, recal) ==
    IF AlreadyObserved(p[1], S.observed_sats) THEN S
    ELSE IF SlotFree(p[2], S.obs_times, recal)
         THEN [scheduled |-> Append(S.scheduled, p),
               observed_sats |-> S.observed_sats \cup {p[1]},
               obs_times |-> Append(S.obs_times, p[2])]
         ELSE S

SchedLocals == [scheduled |-> <<>>, observed_sats |-> {}, obs_times |-> <<>>]

RECURSIVE ExamineAll(_, _, _, _)
ExamineAll(S, sp, i, recal) ==
    IF i > Len(sp) THEN S ELSE ExamineAll(Examine(S, sp[i], recal), sp, i + 1, recal)

schedule_observations(ps, recal) == ExamineAll(SchedLocals, sorted(ps), 1, recal).scheduled

(* ------------- every result of find_night_passes_fast ----------------- *)
(* The pass lists the detector can return for the window that starts at    *)
(* day d, over every is_night table of the station and every outcome of    *)
(* every satellite at every sample: the for loop over the satellites, the  *)
(* outcomes of satellite s chosen when the loop reaches s.                 *)
RECURSIVE ScanResults(_, _, _, _, _)
ScanResults(R, s, night, d, duration_hours) ==
    IF s >= NumSats THEN R
    ELSE ScanResults(
            {EndOpenPass(ScanLoop(SatLocals(ps, d), s, night, [x \in Sats |-> row],
                                  d, duration_hours), s) :
                ps \in R, row \in [Grid(d, duration_hours) -> Outcomes]},
            s + 1, night, d, duration_hours)

PossiblePasses ==
    [d \in 0 .. NumDays - 1 |->
        UNION {ScanResults({<<>>}, 0, night, d, 24) : night \in [Grid(d, 24) -> BOOLEAN]}]

(* find_night_passes_fast followed by schedule_observations, as both callers *)
(* run them for one station and one window: every schedule they can give.  *)
PossibleSchedules ==
    [d \in 0 .. NumDays - 1 |->
        {schedule_observations(ps, RECALIBRATION_TIME_MIN) : ps \in PossiblePasses[d]}]

(* ====================== run_multi_day_analysis ======================== *)
(* The body of "for sat_idx, peak_time, peak_elev, peak_pos in scheduled"; *)
(* A is the record of day_obs, day_observed and cumulative_observed.       *)
(* mutant of IsNew: is_new computed after cumulative_observed.add(sat_idx) *)
IsNewAfterAdd(s, cumulative) == s \notin (cumulative \cup {s})

IsNew(s, cumulative) == s \notin cumulative

Observation(p, station, day, cumulative) ==
    [sat_idx |-> p[1], time_jd |-> p[2], elevation |-> p[3], position |-> p[4],
     station |-> station, is_first_collect |-> IsNew(p[1], cumulative), day |-> day]

(* mutant of Collect: day_observed is started afresh for every station *)
CollectPerStation(A, p, station, day) ==
    [day_obs |-> Append(A.day_obs, Observation(p, station, day, A.cumulative_observed)),
     day_observed |-> IF A.day_obs # <<>> /\ A.day_obs[Len(A.day_obs)].station = station
                      THEN A.day_observed \cup {p[1]} ELSE {p[1]},
     cumulative_observed |-> A.cumulative_observed \cup {p[1]}]

(* mutant of Collect: an observation of an object already covered is left out *)
CollectNewOnly(A, p, station, day) ==
    IF p[1] \in A.cumulative_observed THEN A
    ELSE [day_obs |-> Append(A.day_obs, Observation(p, station, day, A.cumulative_observed)),
          day_observed |-> A.day_observed \cup {p[1]},
          cumulative_observed |-> A.cumulative_observed \cup {p[1]}]

Collect(A, p, station, day) ==
    [day_obs |-> Append(A.day_obs, Observation(p, station, day, A.cumulative_observed)),
     day_observed |-> A.day_observed \cup {p[1]},
     cumulative_observed |-> A.cumulative_observed \cup {p[1]}]

RECURSIVE CollectAll(_, _, _, _, _)
CollectAll(A, sch, i, station, day) ==
    IF i > Len(sch) THEN A
    ELSE CollectAll(Collect(A, sch[i], station, day), sch, i + 1, station, day)

(* new_today = len(day_observed - (cumulative_observed - day_observed)) *)
new_today(observed_today, cumulative) ==
    Cardinality(observed_today \ (cumulative \ observed_today))

(* the record appended to daily_stats *)
DayRecord(day, obs, observed_today, cumulative) ==
    [day |-> day + 1, observations |-> Len(obs),
     unique_today |-> Cardinality(observed_today), cumulative |-> Cardinality(cumulative)]

(* ========================== optimize_greedy =========================== *)
(* A station is the record of its name and its cloud_cover; cloud_cover is *)
(* counted in hundredths, so the score                                     *)
(*     len(new_sats) * (1.0 - cloud_cover * 0.5)                           *)
(* is kept as 200 times its value.                                         *)
CloudCovers == {0, 50, 100}

(* the dict entry candidate_passes[station.name] *)
CandidateData(st, ps) ==
    LET sch == schedule_observations(ps, RECALIBRATION_TIME_MIN)
    IN  [station |-> st, passes |-> ps, scheduled |-> sch,
         sats |-> {sch[i][1] : i \in 1 .. Len(sch)}]

InSelected(st, sel) == \E i \in 1 .. Len(sel) : sel[i] = st

NewSats(data, observed) == data.sats \ observed

(* mutant of Score: the cloud cover factor left out *)
ScoreUnweighted(data, observed) == Cardinality(NewSats(data, observed)) * 200

(* mutant of Score: every scheduled object of the candidate counted, new or not *)
ScoreAllSats(data, observed) ==
    Cardinality(data.sats) * (200 - data.station.cloud_cover)

Score(data, observed) ==
    Cardinality(NewSats(data, observed)) * (200 - data.station.cloud_cover)

(* mutant of Beats: the comparison written as >= *)
BeatsOrTies(score, best_new) == score >= best_new

Beats(score, best_new) == score > best_new

(* the inner loop "for name, data in candidate_passes.items()"; B is the    *)
(* record of best_new and best_data (0 for None, else the entry's position) *)
RECURSIVE BestOf(_, _, _, _, _)
BestOf(B, cp, i, sel, observed) ==
    IF i > Len(cp) THEN B
    ELSE IF InSelected(cp[i].station, sel) THEN BestOf(B, cp, i + 1, sel, observed)
    ELSE IF Beats(Score(cp[i], observed), B.best_new)
         THEN BestOf([best_new |-> Score(cp[i], observed), best_data |-> i],
                     cp, i + 1, sel, observed)
         ELSE BestOf(B, cp, i + 1, sel, observed)

BestCandidate(cp, sel, observed) ==
    BestOf([best_new |-> 0, best_data |-> 0], cp, 1, sel, observed)

(* mutant of InRange: the loop runs until the counter equals num_stations *)
InRangeUntilEqual(r, n) == r # n

(* "for round_num in range(num_stations)": the rounds 0 .. num_stations - 1 *)
InRange(r, n) == r < n

(* mutant of MergeObserved: the set assigned instead of updated *)
MergeObservedReplace(observed, data) == data.sats

MergeObserved(observed, data) == observed \cup data.sats

(* mutant of StatsEntry: new_sats taken after global_observed.update *)
StatsEntryAfterMerge(data, observed) ==
    [total_passes |-> Len(data.passes), scheduled |-> Len(data.scheduled),
     unique_sats |-> Cardinality(data.sats),
     new_unique |-> Cardinality(NewSats(data, observed \cup data.sats)),
     observations |-> data.scheduled]

(* the entry stats[best_station.name] *)
StatsEntry(data, observed) ==
    [total_passes |-> Len(data.passes), scheduled |-> Len(data.scheduled),
     unique_sats |-> Cardinality(data.sats),
     new_unique |-> Cardinality(NewSats(data, observed)),
     observations |-> data.scheduled]

(* run_multi_day_analysis as a function of what each (station, day) schedules: *)
(* tab[d + 1][st] is the schedule of station st in day d, order the station     *)
(* list.  R is the record of cumulative_observed, daily_stats and               *)
(* all_observations.                                                            *)
RECURSIVE RunStations(_, _, _, _, _)
RunStations(A, tab, order, k, d) ==
    IF k > Len(order) THEN A
    ELSE RunStations(CollectAll(A, tab[d + 1][order[k]], 1, order[k], d),
                     tab, order, k + 1, d)

RECURSIVE RunDays(_, _, _, _)
RunDays(R, tab, order, d) ==
    IF d >= NumDays THEN R
    ELSE LET A == RunStations([day_obs |-> <<>>, day_observed |-> {},
                               cumulative_observed |-> R.cumulative_observed],
                              tab, order, 1, d)
         IN  RunDays([cumulative_observed |-> A.cumulative_observed,
                      daily_stats |-> Append(R.daily_stats,
                                             DayRecord(d, A.day_obs, A.day_observed,
                                                       A.cumulative_observed)),
                      all_observations |-> R.all_observations \o A.day_obs],
                     tab, order, d + 1)

run_multi_day_analysis(tab, order) ==
    RunDays([cumulative_observed |-> {}, daily_stats |-> <<>>, all_observations |-> <<>>],
            tab, order, 0)

(* ============================== state ================================= *)
VARIABLES
    pc,              \* where the running function stands
    night_tab,       \* find_night_passes_fast: sample time -> is_night(station, jd, fr)
    elev_tab,        \* find_night_passes_fast: satellite -> sample time -> outcome
    sat_idx, jd, fr, in_pass, pass_peak_elev, pass_peak_time, pass_peak_pos,
    passes,          \* the list find_night_passes_fast builds; the argument of schedule_observations
    recal_min, sorted_passes, pos, scheduled, observed_sats, obs_times,
    station,         \* run_multi_day_analysis: index of the station of the for loop
    day, day_observed, day_obs, all_observations, cumulative_observed, daily_stats,
    candidates, num_stations, candidate_passes, selected, global_observed, stats, round_num,
    lines,           \* load_tles: the lines of the file
    line_i,          \* load_tles: the index i of the while loop
    satellites,      \* load_tles: the list being built
    output_lines,    \* parse_tle_file: the lines to be written
    found_count      \* parse_tle_file: the number of records written

scanVars == <<night_tab, elev_tab, sat_idx, jd, fr, in_pass, pass_peak_elev,
              pass_peak_time, pass_peak_pos>>
schedVars == <<recal_min, sorted_passes, pos, scheduled, observed_sats, obs_times>>
mdVars == <<station, day, day_observed, day_obs, all_observations, cumulative_observed,
            daily_stats>>
grVars == <<candidates, num_stations, candidate_passes, selected, global_observed, stats,
            round_num>>
parseVars == <<output_lines, found_count>>
tleVars == <<lines, line_i, satellites, parseVars>>
vars == <<pc, scanVars, passes, schedVars, mdVars, grVars, tleVars>>

LoadIdle ==
    /\ lines = <<>> /\ line_i = 0 /\ satellites = <<>>
    /\ output_lines = <<>> /\ found_count = 0

GreedyIdle ==
    /\ candidates = <<>> /\ num_stations = 0 /\ candidate_passes = <<>> /\ selected = <<>>
    /\ global_observed = {} /\ stats = <<>> /\ round_num = 0

ScanIdle ==
    /\ night_tab = <<>> /\ elev_tab = <<>> /\ sat_idx = 0 /\ jd = 0 /\ fr = 0
    /\ in_pass = FALSE /\ pass_peak_elev = 0 /\ pass_peak_time = 0 /\ pass_peak_pos = zeros

SchedIdle ==
    /\ recal_min = 0 /\ sorted_passes = <<>> /\ pos = 0
    /\ scheduled = <<>> /\ observed_sats = {} /\ obs_times = <<>>

MDIdle ==
    /\ station = 0 /\ day = 0 /\ day_observed = {} /\ day_obs = <<>>
    /\ all_observations = <<>> /\ cumulative_observed = {} /\ daily_stats = <<>>

(* ============ find_night_passes_fast, one sample at a time ============ *)
(* One station, the window of 24 hours that starts at day 0.              *)
ScanStart == 0
ScanHours == 24

Locals ==
    [jd |-> jd, fr |-> fr, in_pass |-> in_pass, pass_peak_elev |-> pass_peak_elev,
     pass_peak_time |-> pass_peak_time, pass_peak_pos |-> pass_peak_pos, passes |-> passes]

SetLocals(L) ==
    /\ jd' = L.jd /\ fr' = L.fr /\ in_pass' = L.in_pass
    /\ pass_peak_elev' = L.pass_peak_elev /\ pass_peak_time' = L.pass_peak_time
    /\ pass_peak_pos' = L.pass_peak_pos /\ passes' = L.passes

Now == JdFr(jd, fr)

ScanInit ==
    /\ pc = "scan"
    /\ night_tab \in [Grid(ScanStart, ScanHours) -> BOOLEAN]
    /\ elev_tab \in [Sats -> [Grid(ScanStart, ScanHours) -> Outcomes]]
    /\ sat_idx = 0
    /\ jd = ScanStart /\ fr = 0 /\ in_pass = FALSE /\ pass_peak_elev = 0
    /\ pass_peak_time = 0 /\ pass_peak_pos = zeros /\ passes = <<>>
    /\ SchedIdle /\ MDIdle /\ GreedyIdle /\ LoadIdle

Sampling == pc = "scan" /\ InWindow(Locals, ScanStart, ScanHours)

(* one iteration of the while loop at the current sample *)
ScanSample ==
    /\ SetLocals(LoopBody(Locals, sat_idx, night_tab[Now], elev_tab[sat_idx][Now]))
    /\ UNCHANGED <<pc, night_tab, elev_tab, sat_idx, schedVars, mdVars, grVars, tleVars>>

(* "if not is_night(station, jd, fr)" *)
ScanNotNight == Sampling /\ ~night_tab[Now] /\ ScanSample

(* "if e != 0" *)
ScanPropFail == Sampling /\ night_tab[Now] /\ elev_tab[sat_idx][Now].e # 0 /\ ScanSample

(* the elevation is computed and compared *)
ScanElev == Sampling /\ night_tab[Now] /\ elev_tab[sat_idx][Now].e = 0 /\ ScanSample

(* the while loop ends: end any open pass, go to the next satellite *)
ScanNextSat ==
    /\ pc = "scan" /\ ~InWindow(Locals, ScanStart, ScanHours) /\ sat_idx + 1 < NumSats
    /\ SetLocals(SatLocals(EndOpenPass(Locals, sat_idx), ScanStart))
    /\ sat_idx' = sat_idx + 1
    /\ UNCHANGED <<pc, night_tab, elev_tab, schedVars, mdVars, grVars, tleVars>>

(* the last satellite is done: end any open pass, return passes *)
ScanReturn ==
    /\ pc = "scan" /\ ~InWindow(Locals, ScanStart, ScanHours) /\ sat_idx + 1 >= NumSats
    /\ passes' = EndOpenPass(Locals, sat_idx)
    /\ pc' = "done"
    /\ UNCHANGED <<night_tab, elev_tab, sat_idx, jd, fr, in_pass, pass_peak_elev,
                   pass_peak_time, pass_peak_pos, schedVars, mdVars, grVars, tleVars>>

ScanNext == ScanNotNight \/ ScanPropFail \/ ScanElev \/ ScanNextSat \/ ScanReturn

SpecScan == ScanInit /\ [][ScanNext]_vars

(* ============ schedule_observations, one pass at a time =============== *)
PassInputs ==
    {<<s, t, v, sat_ecef(s, t)>> : s \in Sats, t \in 0 .. MaxTime,
                                   v \in MIN_ELEVATION_DEG + 1 .. MIN_ELEVATION_DEG + NumElev}

SeqsUpTo(S, n) == UNION {[1 .. m -> S] : m \in 0 .. n}

SchedInit ==
    /\ pc = "call"
    /\ passes \in SeqsUpTo(PassInputs, MaxPasses)
    /\ recal_min \in 0 .. MaxRecal
    /\ sorted_passes = <<>> /\ pos = 0
    /\ scheduled = <<>> /\ observed_sats = {} /\ obs_times = <<>>
    /\ ScanIdle /\ MDIdle /\ GreedyIdle /\ LoadIdle

SchedState == [scheduled |-> scheduled, observed_sats |-> observed_sats, obs_times |-> obs_times]

SetSchedState(S) ==
    /\ scheduled' = S.scheduled /\ observed_sats' = S.observed_sats /\ obs_times' = S.obs_times

(* sorted_passes = sorted(...); scheduled = []; observed_sats = set(); obs_times = [] *)
SchedSort ==
    /\ pc = "call"
    /\ sorted_passes' = sorted(passes)
    /\ SetSchedState(SchedLocals)
    /\ pos' = 1
    /\ pc' = "examine"
    /\ UNCHANGED <<scanVars, passes, recal_min, mdVars, grVars, tleVars>>

Examining == pc = "examine" /\ pos <= Len(sorted_passes)

SchedStep ==
    /\ SetSchedState(Examine(SchedState, sorted_passes[pos], recal_min))
    /\ pos' = pos + 1
    /\ UNCHANGED <<pc, scanVars, passes, recal_min, sorted_passes, mdVars, grVars, tleVars>>

(* "if sat_idx in observed_sats: continue" *)
SchedSkipObserved ==
    /\ Examining /\ AlreadyObserved(sorted_passes[pos][1], observed_sats)
    /\ SchedStep

(* slot_free is False *)
SchedSlotTaken ==
    /\ Examining /\ ~AlreadyObserved(sorted_passes[pos][1], observed_sats)
    /\ ~SlotFree(sorted_passes[pos][2], obs_times, recal_min)
    /\ SchedStep

(* slot_free is True *)
SchedAccept ==
    /\ Examining /\ ~AlreadyObserved(sorted_passes[pos][1], observed_sats)
    /\ SlotFree(sorted_passes[pos][2], obs_times, recal_min)
    /\ SchedStep

SchedReturn ==
    /\ pc = "examine" /\ pos > Len(sorted_passes)
    /\ pc' = "done"
    /\ UNCHANGED <<scanVars, passes, schedVars, mdVars, grVars, tleVars>>

SchedNext == SchedSort \/ SchedSkipObserved \/ SchedSlotTaken \/ SchedAccept \/ SchedReturn

SpecSched == SchedInit /\ [][SchedNext]_vars

(* ============ run_multi_day_analysis, one station at a time ============ *)
(* Stations 1 .. NumStations in list order, start_jd = day 0.  What a      *)
(* station sees in a day window is chosen when the loop reaches it; passes *)
(* and scheduled are locals of the iteration and are not kept.            *)
MDStart == 0

MDInit ==
    /\ pc = "day"
    /\ all_observations = <<>> /\ cumulative_observed = {} /\ daily_stats = <<>>
    /\ day = 0 /\ station = 0 /\ day_observed = {} /\ day_obs = <<>>
    /\ passes = <<>>
    /\ ScanIdle /\ SchedIdle /\ GreedyIdle /\ LoadIdle

(* for day in range(num_days): day_observed = set(); day_obs = [] *)
MDDayStart ==
    /\ pc = "day" /\ day < NumDays
    /\ day_observed' = {} /\ day_obs' = <<>>
    /\ station' = 1
    /\ pc' = "station"
    /\ UNCHANGED <<scanVars, passes, schedVars, day, all_observations,
                   cumulative_observed, daily_stats, grVars, tleVars>>

Acc == [day_obs |-> day_obs, day_observed |-> day_observed,
        cumulative_observed |-> cumulative_observed]

(* one iteration of "for station in stations" *)
MDStation ==
    /\ pc = "station" /\ station <= NumStations
    /\ \E sch \in PossibleSchedules[MDStart + day] :
          LET A == CollectAll(Acc, sch, 1, station, day)
          IN  /\ day_obs' = A.day_obs
              /\ day_observed' = A.day_observed
              /\ cumulative_observed' = A.cumulative_observed
    /\ station' = station + 1
    /\ UNCHANGED <<pc, scanVars, passes, schedVars, day, all_observations, daily_stats,
                   grVars, tleVars>>

(* after the last station: daily_stats.append(...); all_observations.extend(day_obs) *)
MDDayEnd ==
    /\ pc = "station" /\ station > NumStations
    /\ daily_stats' = Append(daily_stats,
                             DayRecord(day, day_obs, day_observed, cumulative_observed))
    /\ all_observations' = all_observations \o day_obs
    /\ day' = day + 1
    /\ pc' = "day"
    /\ UNCHANGED <<scanVars, passes, schedVars, station, day_observed, day_obs,
                   cumulative_observed, grVars, tleVars>>

MDReturn ==
    /\ pc = "day" /\ day >= NumDays
    /\ pc' = "done"
    /\ UNCHANGED <<scanVars, passes, schedVars, mdVars, grVars, tleVars>>

MDNext == MDDayStart \/ MDStation \/ MDDayEnd \/ MDReturn

SpecMD == MDInit /\ [][MDNext]_vars

(* ================= optimize_greedy, one round at a time ================ *)
(* The catalog holds NumCatalog satellites.  What find_night_passes_fast   *)
(* returns for a candidate is chosen when the precompute loop reaches it:  *)
(* for any set of satellites, one pass of each, RECALIBRATION_TIME_MIN     *)
(* apart, in catalog order.                                                *)
Catalog == 0 .. NumCatalog - 1

RECURSIVE PassesOf(_, _)
PassesOf(T, s) ==
    IF s >= NumCatalog THEN <<>>
    ELSE (IF s \in T
          THEN <<(<<s, s * RECALIBRATION_TIME_MIN, MIN_ELEVATION_DEG + 1,
                    sat_ecef(s, s * RECALIBRATION_TIME_MIN)>>)>>
          ELSE <<>>) \o PassesOf(T, s + 1)

CandidatePassLists == {PassesOf(T, 0) : T \in SUBSET Catalog}

GreedyInit ==
    /\ pc = "precompute"
    /\ \E cc \in SeqsUpTo(CloudCovers, MaxCands) :
          candidates = [i \in 1 .. Len(cc) |-> [name |-> i, cloud_cover |-> cc[i]]]
    /\ num_stations \in -1 .. MaxK
    /\ candidate_passes = <<>> /\ selected = <<>> /\ global_observed = {}
    /\ stats = <<>> /\ round_num = 0
    /\ passes = <<>>
    /\ ScanIdle /\ SchedIdle /\ MDIdle /\ LoadIdle

(* one iteration of "for i, station in enumerate(candidates)" *)
GreedyPrecompute ==
    /\ pc = "precompute" /\ Len(candidate_passes) < Len(candidates)
    /\ \E ps \in CandidatePassLists :
          candidate_passes' =
              Append(candidate_passes,
                     CandidateData(candidates[Len(candidate_passes) + 1], ps))
    /\ UNCHANGED <<pc, scanVars, passes, schedVars, mdVars, candidates, num_stations,
                   selected, global_observed, stats, round_num, tleVars>>

(* selected = []; global_observed = set(); stats = {} *)
GreedyStartRounds ==
    /\ pc = "precompute" /\ Len(candidate_passes) >= Len(candidates)
    /\ selected' = <<>> /\ global_observed' = {} /\ stats' = <<>>
    /\ round_num' = 0
    /\ pc' = "rounds"
    /\ UNCHANGED <<scanVars, passes, schedVars, mdVars, candidates, num_stations,
                   candidate_passes, tleVars>>

Best == BestCandidate(candidate_passes, selected, global_observed)

(* mutant of GreedySelect: the merge empties the cached set of the selected site *)
GreedySelectDrains ==
    /\ pc = "rounds" /\ InRange(round_num, num_stations)
    /\ Best.best_data # 0
    /\ LET data == candidate_passes[Best.best_data]
       IN  /\ selected' = Append(selected, data.station)
           /\ global_observed' = MergeObserved(global_observed, data)
           /\ stats' = (data.station.name :> StatsEntry(data, global_observed)) @@ stats
    /\ candidate_passes' = [candidate_passes EXCEPT ![Best.best_data].sats = {}]
    /\ round_num' = round_num + 1
    /\ UNCHANGED <<pc, scanVars, passes, schedVars, mdVars, candidates, num_stations, tleVars>>

(* a round of "for round_num in range(num_stations)" that finds a best_station *)
GreedySelect ==
    /\ pc = "rounds" /\ InRange(round_num, num_stations)
    /\ Best.best_data # 0
    /\ LET data == candidate_passes[Best.best_data]
       IN  /\ selected' = Append(selected, data.station)
           /\ global_observed' = MergeObserved(global_observed, data)
           /\ stats' = (data.station.name :> StatsEntry(data, global_observed)) @@ stats
    /\ round_num' = round_num + 1
    /\ UNCHANGED <<pc, scanVars, passes, schedVars, mdVars, candidates, num_stations,
                   candidate_passes, tleVars>>

(* a round in which best_station stays None *)
GreedyNoSelect ==
    /\ pc = "rounds" /\ InRange(round_num, num_stations)
    /\ Best.best_data = 0
    /\ round_num' = round_num + 1
    /\ UNCHANGED <<pc, scanVars, passes, schedVars, mdVars, candidates, num_stations,
                   candidate_passes, selected, global_observed, stats, tleVars>>

GreedyReturn ==
    /\ pc = "rounds" /\ ~InRange(round_num, num_stations)
    /\ pc' = "done"
    /\ UNCHANGED <<scanVars, passes, schedVars, mdVars, grVars, tleVars>>

GreedyNext ==
    GreedyPrecompute \/ GreedyStartRounds \/ GreedySelect \/ GreedyNoSelect \/ GreedyReturn

SpecGreedy == GreedyInit /\ [][GreedyNext]_vars

(* ======== optimize_greedy over the coverage sets of the example ======== *)
(* The same function on a catalog of five objects 1..5: what a candidate    *)
(* schedules is one of the sets below, one pass per object.                 *)
RECURSIVE PassesFrom(_, _, _)
PassesFrom(T, s, last) ==
    IF s > last THEN <<>>
    ELSE (IF s \in T
          THEN <<(<<s, s * RECALIBRATION_TIME_MIN, MIN_ELEVATION_DEG + 1,
                    sat_ecef(s, s * RECALIBRATION_TIME_MIN)>>)>>
          ELSE <<>>) \o PassesFrom(T, s + 1, last)

CoverSets == {{1, 2, 3}, {3, 4, 5}, {1, 4}, {2, 5}, {4}, {}}

CoverPassLists == {PassesFrom(T, 1, 5) : T \in CoverSets}

(* one iteration of "for i, station in enumerate(candidates)" *)
CoverPrecompute ==
    /\ pc = "precompute" /\ Len(candidate_passes) < Len(candidates)
    /\ \E ps \in CoverPassLists :
          candidate_passes' =
              Append(candidate_passes,
                     CandidateData(candidates[Len(candidate_passes) + 1], ps))
    /\ UNCHANGED <<pc, scanVars, passes, schedVars, mdVars, candidates, num_stations,
                   selected, global_observed, stats, round_num, tleVars>>

CoverNext ==
    CoverPrecompute \/ GreedyStartRounds \/ GreedySelect \/ GreedyNoSelect \/ GreedyReturn

SpecCover == GreedyInit /\ [][CoverNext]_vars

(* ============================= load_tles ============================== *)
(* A line of the file after strip(): its prefix ("1 ", "2 " or neither),    *)
(* whether it is a TLE data line that Satrec.twoline2rv and int(line1[2:7]) *)
(* accept, and its text, which stands for the rest of its content.          *)
MaxLines == 6

LineKinds == {[prefix |-> "", data |-> FALSE],
              [prefix |-> "1 ", data |-> TRUE], [prefix |-> "1 ", data |-> FALSE],
              [prefix |-> "2 ", data |-> TRUE], [prefix |-> "2 ", data |-> FALSE]}

Line(kind, text) == [prefix |-> kind.prefix, data |-> kind.data, text |-> text]

startswith(line, prefix) == line.prefix = prefix

(* the try block raises nothing *)
Parses(line1, line2) == line1.data /\ line2.data

(* Satellite(name, catalog_num, satrec) *)
Satellite(name, line1, line2) ==
    [name |-> name.text, catalog_num |-> line1.text, satrec |-> <<line1.text, line2.text>>]

(* the body of "while i < len(lines) - 2"; S is the record of i and satellites *)
LoadBody(S, ls) ==
    LET name == ls[S.i + 1]
        line1 == ls[S.i + 2]
        line2 == ls[S.i + 3]
    IN  IF startswith(line1, "1 ") /\ startswith(line2, "2 ")
        THEN [i |-> S.i + 3,
              satellites |-> IF Parses(line1, line2)
                             THEN Append(S.satellites, Satellite(name, line1, line2))
                             ELSE S.satellites]
        ELSE [S EXCEPT !.i = @ + 1]

LoadInit ==
    /\ pc = "load"
    /\ \E ks \in SeqsUpTo(LineKinds, MaxLines) :
          lines = [k \in 1 .. Len(ks) |-> Line(ks[k], k)]
    /\ line_i = 0 /\ satellites = <<>>
    /\ output_lines = <<>> /\ found_count = 0
    /\ passes = <<>>
    /\ ScanIdle /\ SchedIdle /\ MDIdle /\ GreedyIdle

Loading == pc = "load" /\ line_i < Len(lines) - 2

LoadStep ==
    /\ LET S == LoadBody([i |-> line_i, satellites |-> satellites], lines)
       IN  line_i' = S.i /\ satellites' = S.satellites
    /\ UNCHANGED <<pc, scanVars, passes, schedVars, mdVars, grVars, lines, parseVars>>

(* the three lines are a triple by their prefixes and the try block succeeds *)
LoadTriple ==
    /\ Loading
    /\ startswith(lines[line_i + 2], "1 ") /\ startswith(lines[line_i + 3], "2 ")
    /\ Parses(lines[line_i + 2], lines[line_i + 3])
    /\ LoadStep

(* the try block raises: "except: pass" *)
LoadUnparsable ==
    /\ Loading
    /\ startswith(lines[line_i + 2], "1 ") /\ startswith(lines[line_i + 3], "2 ")
    /\ ~Parses(lines[line_i + 2], lines[line_i + 3])
    /\ LoadStep

(* the else branch: i += 1 *)
LoadSkipLine ==
    /\ Loading
    /\ ~(startswith(lines[line_i + 2], "1 ") /\ startswith(lines[line_i + 3], "2 "))
    /\ LoadStep

LoadReturn ==
    /\ pc = "load" /\ ~(line_i < Len(lines) - 2)
    /\ pc' = "done"
    /\ UNCHANGED <<scanVars, passes, schedVars, mdVars, grVars, tleVars>>

LoadNext == LoadTriple \/ LoadUnparsable \/ LoadSkipLine \/ LoadReturn

SpecLoad == LoadInit /\ [][LoadNext]_vars

(* ==================== parse_tle_file (tle_parser.py) ==================== *)
(* A line of the input after rstrip: data tells whether it matches          *)
(* "^[12] \d{5}" and with which digit ("" when it does not), hit whether    *)
(* the upper-cased search term is in the upper-cased line, text stands for  *)
(* the rest of its content.                                                 *)
ParseKinds == {[data |-> "", hit |-> TRUE], [data |-> "", hit |-> FALSE],
               [data |-> "1", hit |-> FALSE], [data |-> "2", hit |-> FALSE]}

ParseLine(kind, text) == [data |-> kind.data, hit |-> kind.hit, text |-> text]

is_tle_data_line(line) == line.data # ""

(* "if i + 2 < len(lines)" and both following lines are TLE data lines *)
RecordAt(S, ls) ==
    /\ ~is_tle_data_line(ls[S.i + 1])
    /\ S.i + 2 < Len(ls)
    /\ is_tle_data_line(ls[S.i + 2]) /\ is_tle_data_line(ls[S.i + 3])

(* the body of "while i < len(lines)"; S is the record of i, output_lines *)
(* and found_count                                                        *)
ParseBody(S, ls) ==
    IF RecordAt(S, ls)
    THEN IF ls[S.i + 1].hit
         THEN [i |-> S.i + 3,
               output_lines |-> S.output_lines \o <<ls[S.i + 1], ls[S.i + 2], ls[S.i + 3]>>,
               found_count |-> S.found_count + 1]
         ELSE [S EXCEPT !.i = @ + 3]
    ELSE [S EXCEPT !.i = @ + 1]

ParseInit ==
    /\ pc = "parse"
    /\ \E ks \in SeqsUpTo(ParseKinds, MaxLines) :
          lines = [k \in 1 .. Len(ks) |-> ParseLine(ks[k], k)]
    /\ line_i = 0 /\ satellites = <<>>
    /\ output_lines = <<>> /\ found_count = 0
    /\ passes = <<>>
    /\ ScanIdle /\ SchedIdle /\ MDIdle /\ GreedyIdle

ParseLocals == [i |-> line_i, output_lines |-> output_lines, found_count |-> found_count]

Parsing == pc = "parse" /\ line_i < Len(lines)

ParseStep ==
    /\ LET S == ParseBody(ParseLocals, lines)
       IN  line_i' = S.i /\ output_lines' = S.output_lines /\ found_count' = S.found_count
    /\ UNCHANGED <<pc, scanVars, passes, schedVars, mdVars, grVars, lines, satellites>>

(* a record whose name holds the search term: its three lines are appended *)
ParseWrite == Parsing /\ RecordAt(ParseLocals, lines) /\ lines[line_i + 1].hit /\ ParseStep

(* a record whose name does not hold the search term *)
ParseSkipRecord ==
    Parsing /\ RecordAt(ParseLocals, lines) /\ ~lines[line_i + 1].hit /\ ParseStep

(* "Move to next line" *)
ParseSkipLine == Parsing /\ ~RecordAt(ParseLocals, lines) /\ ParseStep

(* the loop ends: the output file is written, found_count returned *)
ParseReturn ==
    /\ pc = "parse" /\ ~(line_i < Len(lines))
    /\ pc' = "done"
    /\ UNCHANGED <<scanVars, passes, schedVars, mdVars, grVars, tleVars>>

ParseNext == ParseWrite \/ ParseSkipRecord \/ ParseSkipLine \/ ParseReturn

SpecParse == ParseInit /\ [][ParseNext]_vars

(* ============================== claims ================================ *)

(* ---- schedule_observations (SpecSched) ---- *)

\* C1: any two distinct observations accepted by schedule_observations have peak
\* times at least the recalibration interval apart; a pair exactly the interval
\* apart is accepted.
C1_Separation ==
    \A i, j \in 1 .. Len(scheduled) :
        i # j => Abs(scheduled[i][2] - scheduled[j][2]) >= recal_min

C1_Witness ==
    /\ pc = "done" /\ recal_min > 0
    /\ \E i, j \in 1 .. Len(scheduled) :
          i # j /\ Abs(scheduled[i][2] - scheduled[j][2]) = recal_min

\* C2: no object id appears in two observations of one schedule, also when the
\* input holds several passes of the same object.
C2_OnePerObject ==
    \A i, j \in 1 .. Len(scheduled) : i # j => scheduled[i][1] # scheduled[j][1]

C2_Witness ==
    /\ pc = "done" /\ Len(scheduled) >= 1
    /\ \E i, j \in 1 .. Len(passes) :
          /\ i < j /\ passes[i][1] = passes[j][1]
          /\ Abs(passes[i][2] - passes[j][2]) >= recal_min

(* ---- find_night_passes_fast (SpecScan) ---- *)

LastSample == Now - step_min

\* C3: every emitted pass, and the pass being tracked, has a peak elevation
\* strictly above MIN_ELEVATION_DEG on every emission path; a successfully
\* propagated sample whose elevation equals the threshold leaves no pass open.
C3_PeakAboveMin ==
    /\ \A i \in 1 .. Len(passes) : passes[i][3] > MIN_ELEVATION_DEG
    /\ in_pass => pass_peak_elev > MIN_ELEVATION_DEG
    /\ (in_pass /\ elev_tab[sat_idx][LastSample].e = 0)
          => elev_tab[sat_idx][LastSample].elev > MIN_ELEVATION_DEG

C3_Witness ==
    /\ pc = "done" /\ Len(passes) >= 2
    /\ \E t \in DOMAIN night_tab :
          /\ night_tab[t]
          /\ elev_tab[0][t] = [e |-> 0, elev |-> MIN_ELEVATION_DEG]
          /\ \E i \in 1 .. Len(passes) : passes[i][1] = 0
    /\ \E t \in DOMAIN night_tab : ~night_tab[t]

\* C4: the peak time of every emitted pass, and of the pass being tracked, is a
\* sample of the scan grid at which is_night was true and sgp4 returned e = 0
\* for that satellite.
C4_PeakAtDarkSample ==
    /\ \A i \in 1 .. Len(passes) :
          /\ passes[i][2] \in Grid(ScanStart, ScanHours)
          /\ night_tab[passes[i][2]]
          /\ elev_tab[passes[i][1]][passes[i][2]].e = 0
    /\ in_pass =>
          /\ pass_peak_time \in Grid(ScanStart, ScanHours)
          /\ night_tab[pass_peak_time]
          /\ elev_tab[sat_idx][pass_peak_time].e = 0

C4_Witness ==
    /\ pc = "done" /\ Len(passes) >= 1
    /\ \E t \in DOMAIN night_tab : ~night_tab[t] /\ elev_tab[passes[1][1]][t].e = 0
                                    /\ elev_tab[passes[1][1]][t].elev > MIN_ELEVATION_DEG
    /\ \E t \in DOMAIN night_tab : night_tab[t] /\ elev_tab[passes[1][1]][t].e # 0

\* C10: a propagation failure at a dark sample closes the open pass like an
\* elevation at or below the threshold: two above-threshold runs of a satellite
\* separated only by a failed sample are emitted as two passes.
C10_FailureSplitsPass ==
    pc = "done" =>
        \A s \in Sats : \A t \in DOMAIN night_tab :
            (/\ t - step_min \in DOMAIN night_tab /\ t + step_min \in DOMAIN night_tab
             /\ night_tab[t - step_min] /\ night_tab[t] /\ night_tab[t + step_min]
             /\ elev_tab[s][t - step_min].e = 0
             /\ elev_tab[s][t - step_min].elev > MIN_ELEVATION_DEG
             /\ elev_tab[s][t].e # 0
             /\ elev_tab[s][t + step_min].e = 0
             /\ elev_tab[s][t + step_min].elev > MIN_ELEVATION_DEG)
            => \E i, j \in 1 .. Len(passes) :
                  /\ i # j /\ passes[i][1] = s /\ passes[j][1] = s
                  /\ passes[i][2] <= t - step_min /\ passes[j][2] >= t + step_min

(* ---- run_multi_day_analysis (SpecMD) ---- *)

\* C5: over a whole multi-day run no two observations of the same station have
\* peak times closer together than the recalibration interval, also across a
\* day boundary.
C5_MultiDaySeparation ==
    \A i, j \in 1 .. Len(all_observations) :
        (i # j /\ all_observations[i].station = all_observations[j].station)
        => Abs(all_observations[i].time_jd - all_observations[j].time_jd)
              >= RECALIBRATION_TIME_MIN

FirstCollects == {i \in 1 .. Len(all_observations) : all_observations[i].is_first_collect}

\* C7: the cumulative count of the day records never decreases from a day to
\* the next; at the end it equals the number of distinct objects among the
\* observations flagged first collect, and every observed object carries the
\* flag on exactly one observation of the run.
C7_CumulativeAndFirstCollect ==
    /\ \A d \in 1 .. Len(daily_stats) - 1 :
          daily_stats[d].cumulative <= daily_stats[d + 1].cumulative
    /\ (pc = "done" /\ Len(daily_stats) > 0) =>
          /\ daily_stats[Len(daily_stats)].cumulative
                = Cardinality({all_observations[i].sat_idx : i \in FirstCollects})
          /\ \A k \in 1 .. Len(all_observations) :
                Cardinality({i \in FirstCollects :
                    all_observations[i].sat_idx = all_observations[k].sat_idx}) = 1

C7_Witness ==
    /\ pc = "done"
    /\ daily_stats[1].cumulative < daily_stats[Len(daily_stats)].cumulative
    /\ \E i, j \in 1 .. Len(all_observations) :
          /\ i < j /\ all_observations[i].sat_idx = all_observations[j].sat_idx
          /\ all_observations[i].day = all_observations[j].day
    /\ \E i, j \in 1 .. Len(all_observations) :
          /\ i < j /\ all_observations[i].sat_idx = all_observations[j].sat_idx
          /\ all_observations[i].day < all_observations[j].day

\* C8: the per-day count carried by each day record is the number of objects
\* first observed that day: the day's cumulative count minus the cumulative
\* count of the day before (zero before the first day).
C8_NewTodayIsCumulativeGain ==
    \A d \in 1 .. Len(daily_stats) :
        daily_stats[d].unique_today
            = daily_stats[d].cumulative
                - (IF d = 1 THEN 0 ELSE daily_stats[d - 1].cumulative)

\* C9 as stated: along the observations list of run_multi_day_analysis, and so
\* along every schedule_observations result it is built from, peak times never
\* decrease.
C9_TimeOrdered ==
    \A i, j \in 1 .. Len(all_observations) :
        i < j => all_observations[i].time_jd <= all_observations[j].time_jd

\* C9 amended: the observations list is ordered by day, within a day by the
\* position of the station in the station list, and within one station's
\* schedule by non-increasing peak elevation; it is not ordered by time.
C9_DayStationElevationOrdered ==
    \A i, j \in 1 .. Len(all_observations) :
        i < j =>
            LET a == all_observations[i]
                b == all_observations[j]
            IN  /\ a.day <= b.day
                /\ a.day = b.day => a.station <= b.station
                /\ (a.day = b.day /\ a.station = b.station) => a.elevation >= b.elevation

C9_Witness ==
    /\ pc = "done"
    /\ \E i, j \in 1 .. Len(all_observations) :
          /\ i < j
          /\ all_observations[i].day = all_observations[j].day
          /\ all_observations[i].station = all_observations[j].station
          /\ all_observations[i].elevation > all_observations[j].elevation
          /\ all_observations[i].time_jd > all_observations[j].time_jd

(* ---- optimize_greedy (SpecGreedy) ---- *)

\* C6: the size of global_observed never decreases from one selection round to
\* the next and never exceeds the number of objects in the catalog.
C6_CoverageMonotone ==
    [][/\ Cardinality(global_observed') >= Cardinality(global_observed)
       /\ Cardinality(global_observed') <= NumCatalog]_vars

C6_Witness ==
    /\ pc = "done" /\ Len(selected) >= 2
    /\ Cardinality(global_observed) = NumCatalog
    /\ \E i \in 1 .. Len(candidate_passes) :
          /\ InSelected(candidate_passes[i].station, selected)
          /\ candidate_passes[i].sats # {} /\ candidate_passes[i].sats # global_observed

(* ---- find_night_passes_fast, continued (SpecScan) ---- *)

(* the site is dark at t and satellite s is propagated to an elevation above the threshold *)
DarkAbove(s, t) ==
    night_tab[t] /\ elev_tab[s][t].e = 0 /\ elev_tab[s][t].elev > MIN_ELEVATION_DEG

(* the site is dark at t and the propagation of satellite s fails *)
DarkFail(s, t) == night_tab[t] /\ elev_tab[s][t].e # 0

PassesOfSat(ps, s) == SelectSeq(ps, LAMBDA p : p[1] = s)

(* the returned list: every dark above-threshold sample of a satellite, before or *)
(* after a failure, is covered by a pass of that satellite, and the failure of   *)
(* one satellite leaves the passes of every other satellite as they are when the *)
(* failed propagation succeeds, whatever elevation it then gives                 *)
FailureLeavesScanWhole ==
    /\ \A s \in Sats : \A t \in DOMAIN night_tab :
          DarkAbove(s, t) =>
              \E i \in 1 .. Len(passes) :
                  passes[i][1] = s /\ passes[i][3] >= elev_tab[s][t].elev
    /\ \A s \in Sats : \A t \in DOMAIN night_tab :
          DarkFail(s, t) =>
              \A o \in {x \in Outcomes : x.e = 0} : \A s2 \in Sats \ {s} :
                  PassesOfSat(passes, s2)
                      = PassesOfSat(find_night_passes_fast(night_tab,
                                        [elev_tab EXCEPT ![s][t] = o],
                                        ScanStart, ScanHours), s2)

\* C11: a propagation failure at a sample does not abort the scan: the step
\* moves to the next grid sample of the same satellite and emits nothing, every
\* later dark above-threshold sample still ends up in a pass, and the passes of
\* every other satellite are those of the scan in which the failure did not occur.
C11_FailureDoesNotAbort ==
    /\ [](pc = "done" => FailureLeavesScanWhole)
    /\ [][(Sampling /\ DarkFail(sat_idx, Now))
              => /\ pc' = "scan" /\ sat_idx' = sat_idx
                 /\ JdFr(jd', fr') = Now + step_min
                 /\ passes' = passes /\ in_pass' = in_pass]_vars

C11_Witness ==
    /\ pc = "done"
    /\ \E s \in Sats : \E t \in DOMAIN night_tab :
          /\ DarkFail(s, t)
          /\ \E t2 \in DOMAIN night_tab : t2 > t /\ DarkAbove(s, t2)
          /\ \E s2 \in Sats \ {s} : PassesOfSat(passes, s2) # <<>>

(* no propagation of the scan fails *)
NoFailures == \A s \in Sats : \A t \in DOMAIN night_tab : ~DarkFail(s, t)

(* t is the first sample of a maximal run of dark above-threshold samples of s *)
RunStart(s, t) ==
    /\ DarkAbove(s, t)
    /\ (t - step_min \in DOMAIN night_tab) => ~DarkAbove(s, t - step_min)

(* every sample from a to b is a dark above-threshold sample of s *)
SameRun(s, a, b) ==
    a <= b /\ \A u \in DOMAIN night_tab : (a <= u /\ u <= b) => DarkAbove(s, u)

\* C12: in a scan without propagation failures the returned list holds, for
\* every satellite, exactly one pass per maximal run of consecutive dark
\* above-threshold samples (the run open at the last sample included): as many
\* passes as runs, and exactly one pass with its peak inside each run.
C12_OnePassPerRun ==
    (pc = "done" /\ NoFailures) =>
        \A s \in Sats :
            /\ Len(PassesOfSat(passes, s))
                  = Cardinality({t \in DOMAIN night_tab : RunStart(s, t)})
            /\ \A t \in DOMAIN night_tab :
                  RunStart(s, t) =>
                      Cardinality({i \in 1 .. Len(passes) :
                          passes[i][1] = s /\ SameRun(s, t, passes[i][2])}) = 1

C12_Witness ==
    /\ pc = "done" /\ NoFailures
    /\ \E s \in Sats : \E t \in DOMAIN night_tab :
          /\ t + step_min \notin DOMAIN night_tab
          /\ RunStart(s, t)
          /\ Cardinality({u \in DOMAIN night_tab : RunStart(s, u)}) = 2
    /\ \E s \in Sats : \E t \in DOMAIN night_tab :
          /\ t + step_min \in DOMAIN night_tab
          /\ DarkAbove(s, t) /\ DarkAbove(s, t + step_min)

(* a sample that leaves an open pass of s open: the site is dark and the     *)
(* propagation fails or gives an elevation above the threshold                *)
KeepsOpen(s, u) == night_tab[u] /\ (elev_tab[s][u].e # 0 \/ DarkAbove(s, u))

(* u and p are samples of one pass of s: no sample between them closes it *)
SamePass(s, u, p) ==
    \A w \in DOMAIN night_tab :
        ((u <= w /\ w <= p) \/ (p <= w /\ w <= u)) => KeepsOpen(s, w)

(* the elevations of s rise strictly up to sample m and fall strictly after it *)
Triangular(s, m) ==
    /\ \A u \in DOMAIN night_tab : elev_tab[s][u].e = 0
    /\ elev_tab[s][m].elev > MIN_ELEVATION_DEG
    /\ \A u \in DOMAIN night_tab :
          (u + step_min \in DOMAIN night_tab) =>
              IF u < m THEN elev_tab[s][u].elev < elev_tab[s][u + step_min].elev
              ELSE elev_tab[s][u].elev > elev_tab[s][u + step_min].elev

\* C13: the peak elevation of every returned pass is the largest elevation
\* among the samples that opened or extended the pass, its peak time and
\* position are those of the earliest sample with that elevation, and a
\* triangular elevation trace in a fully dark window gives exactly one pass
\* with its peak at the sample of the maximum.
C13_PeakIsEarliestMaximum ==
    pc = "done" =>
        /\ \A i \in 1 .. Len(passes) :
              LET s == passes[i][1]
                  p == passes[i][2]
              IN  /\ DarkAbove(s, p)
                  /\ passes[i][3] = elev_tab[s][p].elev
                  /\ passes[i][4] = sat_ecef(s, p)
                  /\ \A u \in DOMAIN night_tab :
                        (DarkAbove(s, u) /\ SamePass(s, u, p)) =>
                            /\ elev_tab[s][u].elev <= passes[i][3]
                            /\ elev_tab[s][u].elev = passes[i][3] => p <= u
        /\ \A s \in Sats : \A m \in DOMAIN night_tab :
              ((\A u \in DOMAIN night_tab : night_tab[u]) /\ Triangular(s, m)) =>
                  PassesOfSat(passes, s)
                      = <<(<<s, m, elev_tab[s][m].elev, sat_ecef(s, m)>>)>>

C13_Witness ==
    /\ pc = "done"
    /\ \E i \in 1 .. Len(passes) : \E u, w \in DOMAIN night_tab :
          /\ passes[i][2] < u /\ u < w
          /\ SamePass(passes[i][1], passes[i][2], w)
          /\ DarkAbove(passes[i][1], u) /\ DarkAbove(passes[i][1], w)
          /\ elev_tab[passes[i][1]][u].elev < passes[i][3]
          /\ elev_tab[passes[i][1]][w].elev = passes[i][3]
    /\ \E s \in Sats : \E m \in DOMAIN night_tab :
          /\ Triangular(s, m)
          /\ m - step_min \in DOMAIN night_tab /\ m + step_min \in DOMAIN night_tab

(* ---- schedule_observations, continued (SpecSched) ---- *)

(* two passes of two different satellites, closer together than recal_min, *)
(* with different peak elevations                                          *)
TwoCloseUnequalPasses ==
    /\ Len(passes) = 2
    /\ passes[1][1] # passes[2][1]
    /\ Abs(passes[1][2] - passes[2][2]) < recal_min
    /\ passes[1][3] # passes[2][3]

\* C14: for exactly two passes of two different satellites whose peak times
\* are less than the recalibration interval apart and whose peak elevations
\* differ, the returned schedule is the pass of higher peak elevation alone,
\* in either input order.
C14_HigherOfTwoWins ==
    (pc = "done" /\ TwoCloseUnequalPasses) =>
        scheduled = <<(IF passes[1][3] > passes[2][3] THEN passes[1] ELSE passes[2])>>

C14_Witness ==
    /\ pc = "done" /\ TwoCloseUnequalPasses
    /\ passes[1][3] < passes[2][3] /\ passes[1][2] < passes[2][2]
    /\ scheduled = <<passes[2]>>

(* ---- optimize_greedy, continued (SpecCover, SpecGreedy) ---- *)

EqualQuality ==
    \A i, j \in 1 .. Len(candidates) :
        candidates[i].cloud_cover = candidates[j].cloud_cover

Unselected == {i \in 1 .. Len(candidate_passes) :
                  ~InSelected(candidate_passes[i].station, selected)}

NewCount(i) == Cardinality(candidate_passes[i].sats \ global_observed)

(* the positions of the candidates that cover exactly the set T *)
Covering(T) == {i \in 1 .. Len(candidate_passes) : candidate_passes[i].sats = T}

\* C15: with equal quality factors, a round in which some not-yet-selected
\* candidate has a not-yet-covered object selects a not-yet-selected candidate
\* whose number of not-yet-covered objects is maximal, and no round selects
\* anything else; with three candidates covering {1,2,3}, {3,4,5} and {1,4}, in
\* any order, and k = 2 the selection is the first two and covers 1..5.
C15_SelectsMaximalGain ==
    /\ [][(pc = "rounds" /\ round_num < num_stations /\ EqualQuality) =>
             /\ (\E i \in Unselected : NewCount(i) > 0) => selected' # selected
             /\ selected' # selected =>
                   \E i \in Unselected :
                       /\ selected' = Append(selected, candidate_passes[i].station)
                       /\ \A j \in Unselected : NewCount(j) <= NewCount(i)]_vars
    /\ [](( /\ pc = "done" /\ EqualQuality /\ num_stations = 2
            /\ Len(candidate_passes) = 3
            /\ Covering({1, 2, 3}) # {} /\ Covering({3, 4, 5}) # {}
            /\ Covering({1, 4}) # {})
          => /\ {selected[i].name : i \in 1 .. Len(selected)}
                    = Covering({1, 2, 3}) \cup Covering({3, 4, 5})
             /\ Len(selected) = 2
             /\ global_observed = 1 .. 5)

C15_Witness ==
    /\ pc = "done" /\ EqualQuality /\ num_stations = 2
    /\ Covering({1, 2, 3}) = {1} /\ Covering({3, 4, 5}) = {2} /\ Covering({1, 4}) = {3}
    /\ Len(selected) = 2 /\ global_observed = 1 .. 5

(* no not-yet-selected candidate has a strictly positive score: the factor  *)
(* 1 - cloud_cover * 0.5 is positive, so none has a not-yet-covered object  *)
NoPositiveScore == \A i \in Unselected : NewCount(i) = 0

\* C16: once a round finds no not-yet-selected candidate with a strictly
\* positive score, that round and every later round select nothing: selected,
\* global_observed and stats stay as they are and no candidate gains a positive
\* score, so the returned selection is the one held at that round and may be
\* shorter than num_stations.
C16_NothingAfterEmptyRound ==
    [][(pc = "rounds" /\ NoPositiveScore) =>
          /\ selected' = selected /\ global_observed' = global_observed
          /\ stats' = stats
          /\ NoPositiveScore']_vars

C16_Witness ==
    /\ pc = "done" /\ NoPositiveScore
    /\ Len(selected) >= 1 /\ round_num >= Len(selected) + 2
    /\ Unselected # {}

\* C17: with an empty candidate list, or with num_stations zero or negative,
\* optimize_greedy selects nothing and records no stats at any point, and it
\* runs to its return: every state before the return has a next step.
C17_DegenerateInputs ==
    (Len(candidates) = 0 \/ num_stations <= 0) =>
        /\ selected = <<>> /\ stats = <<>> /\ global_observed = {}
        /\ pc # "done" => ENABLED GreedyNext

C17_Witness ==
    \/ /\ pc = "done" /\ Len(candidates) = 0 /\ num_stations > 0
       /\ round_num = num_stations
    \/ /\ pc = "done" /\ num_stations < 0
       /\ \E i \in 1 .. Len(candidate_passes) : candidate_passes[i].sats # {}

(* ---- run_multi_day_analysis, continued (SpecMD) ---- *)

(* the samples scanned for day d: find_night_passes_fast(..., day_start_jd, 24) *)
(* with day_start_jd = start_jd + day                                          *)
DayWindow(d) == SamplesFrom(SatLocals(<<>>, MDStart + d), MDStart + d, ScanHours)

DaysOfRun == 0 .. NumDays - 1

\* C19: the day windows are closed-open on the sampling grid and do not
\* overlap: day d scans exactly the samples start + d days + j * step with
\* 0 <= j * step < 24 hours, the sample at start + (d + 1) days is not among
\* them, no sample belongs to two days, and every observation, one with its
\* peak on a day boundary included, is recorded in the day whose window holds
\* its peak time.
C19_DayWindowsClosedOpen ==
    /\ \A d \in DaysOfRun :
          /\ DayWindow(d)
                = {JdFr(MDStart + d, 0) + j * step_min :
                      j \in {i \in 0 .. duration_jd(ScanHours) :
                                i * step_min < duration_jd(ScanHours)}}
          /\ JdFr(MDStart + d + 1, 0) \notin DayWindow(d)
          /\ \A d2 \in DaysOfRun \ {d} : DayWindow(d) \cap DayWindow(d2) = {}
    /\ \A i \in 1 .. Len(all_observations) :
          all_observations[i].time_jd \in DayWindow(all_observations[i].day)
    /\ pc = "station" =>
          \A i \in 1 .. Len(day_obs) :
              day_obs[i].day = day /\ day_obs[i].time_jd \in DayWindow(day)

C19_Witness ==
    /\ pc = "done"
    /\ \E i, j \in 1 .. Len(all_observations) :
          /\ all_observations[i].day = 0 /\ all_observations[j].day = 1
          /\ all_observations[i].time_jd = JdFr(MDStart + 1, 0) - step_min
          /\ all_observations[j].time_jd = JdFr(MDStart + 1, 0)
          /\ all_observations[i].station = all_observations[j].station

(* ---- load_tles (SpecLoad) ---- *)

(* a name line: a line that is not a TLE data line *)
NameLine(line) == ~line.data

(* the lines at j, j + 1, j + 2 (counted from 0) are a record that parses *)
ParsableTriple(j) ==
    /\ j + 3 <= Len(lines)
    /\ NameLine(lines[j + 1])
    /\ startswith(lines[j + 2], "1 ") /\ startswith(lines[j + 3], "2 ")
    /\ Parses(lines[j + 2], lines[j + 3])

\* C20: load_tles returns, in file order, an object for every triple of a
\* name line, a line starting "1 " and a line starting "2 " that parses, also
\* for a triple that follows a malformed or unparsable record.
C20_EveryParsableTripleLoaded ==
    pc = "done" =>
        /\ \A j \in 0 .. Len(lines) :
              ParsableTriple(j) =>
                  \E k \in 1 .. Len(satellites) :
                      satellites[k] = Satellite(lines[j + 1], lines[j + 2], lines[j + 3])
        /\ \A k, m \in 1 .. Len(satellites) :
              k < m => satellites[k].name < satellites[m].name

(* ---- schedule_observations, order and acceptance (SpecSched) ---- *)

(* b lists the entries of a by non-increasing peak elevation, entries of *)
(* equal peak elevation in the order they have in a                      *)
StableByElevation(a, b) ==
    /\ Len(a) = Len(b)
    /\ \E f \in [1 .. Len(a) -> 1 .. Len(a)] :
          /\ \A i, j \in 1 .. Len(a) : i # j => f[i] # f[j]
          /\ \A i \in 1 .. Len(a) : b[i] = a[f[i]]
          /\ \A i, j \in 1 .. Len(a) :
                i < j => \/ b[i][3] > b[j][3]
                         \/ b[i][3] = b[j][3] /\ f[i] < f[j]

(* pass q can stand in one schedule with the accepted passes of sch *)
Compatible(q, sch) ==
    \A k \in 1 .. Len(sch) :
        sch[k][1] # q[1] /\ Abs(q[2] - sch[k][2]) >= recal_min

(* two passes of equal peak elevation that cannot both be scheduled *)
TwoEqualConflicting ==
    /\ Len(passes) = 2 /\ passes[1][3] = passes[2][3] /\ passes[1] # passes[2]
    /\ \/ passes[1][1] = passes[2][1]
       \/ Abs(passes[1][2] - passes[2][2]) < recal_min

\* C21: the passes are examined by non-increasing peak elevation, equal
\* elevations in input order, one after the other; each examined pass is
\* appended to the schedule exactly when its object is not scheduled yet and
\* its peak time is at least recal_min away from every accepted peak time, and
\* is dropped otherwise; of two conflicting passes of equal elevation the one
\* earlier in the input is the one scheduled.
C21_ExaminedByElevationThenInput ==
    /\ [](pc \in {"examine", "done"} =>
             /\ StableByElevation(passes, sorted_passes)
             /\ (pc = "done" /\ TwoEqualConflicting) => scheduled = <<passes[1]>>)
    /\ [][Examining =>
             /\ pos' = pos + 1 /\ sorted_passes' = sorted_passes
             /\ scheduled' = IF Compatible(sorted_passes[pos], scheduled)
                             THEN Append(scheduled, sorted_passes[pos])
                             ELSE scheduled]_vars

C21_Witness ==
    /\ pc = "done" /\ TwoEqualConflicting
    /\ passes[1][1] # passes[2][1] /\ passes[1][2] > passes[2][2]
    /\ scheduled = <<passes[1]>>

(* ---- find_night_passes_fast, the samples that are not dark (SpecScan) ---- *)

\* C22: at a grid sample at which the site is not dark nothing is propagated:
\* whatever sgp4 would return there, the step only closes an open pass,
\* appending it when its peak is above the threshold, and moves to the next
\* sample of the same satellite; the peak fields and the tables stay as they are.
C22_NotDarkOnlyClosesPass ==
    [][(Sampling /\ ~night_tab[Now]) =>
          /\ pc' = "scan" /\ sat_idx' = sat_idx
          /\ JdFr(jd', fr') = Now + step_min
          /\ in_pass' = FALSE
          /\ passes' = IF in_pass /\ pass_peak_elev > MIN_ELEVATION_DEG
                       THEN Append(passes, <<sat_idx, pass_peak_time, pass_peak_elev,
                                             pass_peak_pos>>)
                       ELSE passes
          /\ pass_peak_elev' = pass_peak_elev /\ pass_peak_time' = pass_peak_time
          /\ pass_peak_pos' = pass_peak_pos
          /\ night_tab' = night_tab /\ elev_tab' = elev_tab]_vars

C22_Witness ==
    /\ pc = "done"
    /\ \E s \in Sats : \E t \in DOMAIN night_tab :
          /\ t - step_min \in DOMAIN night_tab
          /\ DarkAbove(s, t - step_min) /\ ~night_tab[t]
          /\ elev_tab[s][t].e = 0 /\ elev_tab[s][t].elev > elev_tab[s][t - step_min].elev
          /\ \E i \in 1 .. Len(passes) : passes[i][1] = s /\ passes[i][2] = t - step_min
    /\ \E s \in Sats : \E t \in DOMAIN night_tab : ~night_tab[t] /\ elev_tab[s][t].e # 0

(* ---- run_multi_day_analysis, independence of the (site, day) runs (SpecMD) ---- *)

(* what the step appended to day_obs is the schedule sch, entry by entry, *)
(* tagged with the station and the day                                    *)
AppendedIs(sch, before, after) ==
    /\ Len(after) = Len(before) + Len(sch)
    /\ SubSeq(after, 1, Len(before)) = before
    /\ \A k \in 1 .. Len(sch) :
          LET o == after[Len(before) + k]
          IN  /\ o.sat_idx = sch[k][1] /\ o.time_jd = sch[k][2]
              /\ o.elevation = sch[k][3] /\ o.position = sch[k][4]
              /\ o.station = station /\ o.day = day

SatsOf(sch) == {sch[k][1] : k \in 1 .. Len(sch)}

\* C23: what a (site, day) iteration finds and schedules does not depend on
\* the cumulative set, the earlier days or the other sites: in every state in
\* which an iteration starts, every schedule of that day's window can be the
\* one it appends, whole, objects already covered included; the iteration
\* appends such a schedule, the cumulative set enters only the first-collect
\* flags, and only the cumulative set and the day's accumulators are changed.
C23_SiteDayIndependent ==
    /\ []((pc = "station" /\ station <= NumStations) =>
             \A sch \in PossibleSchedules[MDStart + day] :
                 ENABLED (MDStation /\ AppendedIs(sch, day_obs, day_obs')))
    /\ [][(pc = "station" /\ station <= NumStations) =>
             \E sch \in PossibleSchedules[MDStart + day] :
                 /\ AppendedIs(sch, day_obs, day_obs')
                 /\ \A k \in 1 .. Len(sch) :
                       day_obs'[Len(day_obs) + k].is_first_collect
                           = (sch[k][1] \notin cumulative_observed
                                                 \cup {sch[m][1] : m \in 1 .. k - 1})
                 /\ cumulative_observed' = cumulative_observed \cup SatsOf(sch)
                 /\ day_observed' = day_observed \cup SatsOf(sch)
                 /\ all_observations' = all_observations /\ daily_stats' = daily_stats
                 /\ day' = day]_vars

C23_Witness ==
    /\ pc = "done"
    /\ \E i, j \in 1 .. Len(all_observations) :
          /\ i < j
          /\ all_observations[i].sat_idx = all_observations[j].sat_idx
          /\ all_observations[i].time_jd + DayMin = all_observations[j].time_jd
          /\ all_observations[i].station # all_observations[j].station
          /\ ~all_observations[j].is_first_collect
    /\ cumulative_observed = Sats

(* ---- optimize_greedy, the score rule (SpecGreedy) ---- *)

(* 200 times len(new_sats) * (1.0 - cloud_cover * 0.5) of the candidate at i *)
ScoreOf(i) == NewCount(i) * (200 - candidate_passes[i].station.cloud_cover)

\* C24: a round that selects a site selects a not-yet-selected candidate of
\* highest score, the score being the number of its scheduled objects not in
\* global_observed times (1 - cloud_cover * 0.5), and among candidates of that
\* score the earliest of the candidate list; a candidate with fewer new objects
\* is selected over one with more when its score is higher.
C24_HighestScoreEarliestOnTies ==
    [][(pc = "rounds" /\ selected' # selected) =>
          \E i \in Unselected :
              /\ selected' = Append(selected, candidate_passes[i].station)
              /\ \A j \in Unselected :
                    /\ ScoreOf(j) <= ScoreOf(i)
                    /\ ScoreOf(j) = ScoreOf(i) => i <= j]_vars

C24_Witness ==
    /\ pc = "done" /\ Len(selected) >= 1
    /\ \E i, j, k \in 1 .. Len(candidate_passes) :
          /\ selected[1] = candidate_passes[i].station
          /\ Cardinality(candidate_passes[j].sats) > Cardinality(candidate_passes[i].sats)
          /\ i < k
          /\ Cardinality(candidate_passes[k].sats) * (200 - candidates[k].cloud_cover)
                = Cardinality(candidate_passes[i].sats) * (200 - candidates[i].cloud_cover)

(* ---- optimize_greedy, the cached per-candidate results (SpecGreedy) ---- *)

(* one cache entry per candidate, in candidate order, each holding the     *)
(* schedule of its own passes and the objects of that schedule             *)
CacheComplete ==
    /\ Len(candidate_passes) = Len(candidates)
    /\ \A i \in 1 .. Len(candidates) :
          /\ candidate_passes[i].station = candidates[i]
          /\ candidate_passes[i].scheduled
                = schedule_observations(candidate_passes[i].passes, RECALIBRATION_TIME_MIN)
          /\ candidate_passes[i].sats = SatsOf(candidate_passes[i].scheduled)

\* C25: passes and schedule are computed once per candidate, before the first
\* round and whatever num_stations is: each precompute step adds one entry and
\* leaves the earlier ones, no round has begun while entries are added, the
\* cache is complete when the rounds start, and no round changes an entry of
\* it, the merge into global_observed included.
C25_CacheFixedBeforeRounds ==
    /\ [](/\ pc = "precompute" => selected = <<>> /\ round_num = 0 /\ global_observed = {}
          /\ pc \in {"rounds", "done"} => CacheComplete)
    /\ [][/\ pc = "rounds" => candidate_passes' = candidate_passes
          /\ (pc = "precompute" /\ candidate_passes' # candidate_passes) =>
                /\ Len(candidate_passes') = Len(candidate_passes) + 1
                /\ SubSeq(candidate_passes', 1, Len(candidate_passes)) = candidate_passes]_vars

C25_Witness ==
    /\ pc = "done" /\ Len(selected) >= 2 /\ CacheComplete
    /\ \E i, j \in 1 .. Len(candidate_passes) :
          /\ i # j
          /\ InSelected(candidate_passes[i].station, selected)
          /\ InSelected(candidate_passes[j].station, selected)
          /\ candidate_passes[i].sats \cap candidate_passes[j].sats # {}
          /\ candidate_passes[i].sats # global_observed

(* ---- parse_tle_file (SpecParse) ---- *)

\* C26: every record that parse_tle_file writes is a name line, then a line 1
\* (starting "1 " and a 5-digit catalog number), then a line 2 (starting "2 "
\* and a 5-digit catalog number), in that order.
C26_RecordsAreNameLine1Line2 ==
    /\ Len(output_lines) = 3 * found_count
    /\ \A r \in 0 .. found_count - 1 :
          /\ output_lines[3 * r + 1].data = ""
          /\ output_lines[3 * r + 2].data = "1"
          /\ output_lines[3 * r + 3].data = "2"

(* ---- schedule_observations, maximality (SpecSched) ---- *)

InSchedule(q) == \E k \in 1 .. Len(scheduled) : scheduled[k] = q

\* C27: the returned schedule is maximal: every input pass that is not in it
\* has its object in the schedule or its peak time less than recal_min from the
\* peak time of a scheduled observation; and every scheduled observation is an
\* input pass, object, time, elevation and position unchanged.
C27_ScheduleMaximal ==
    pc = "done" =>
        /\ \A i \in 1 .. Len(passes) :
              ~InSchedule(passes[i]) => ~Compatible(passes[i], scheduled)
        /\ \A k \in 1 .. Len(scheduled) :
              \E i \in 1 .. Len(passes) : passes[i] = scheduled[k]

C27_Witness ==
    /\ pc = "done" /\ Len(scheduled) >= 1 /\ recal_min >= 2
    /\ \E i \in 1 .. Len(passes) :
          /\ ~InSchedule(passes[i])
          /\ \A k \in 1 .. Len(scheduled) : scheduled[k][1] # passes[i][1]
          /\ \E k \in 1 .. Len(scheduled) :
                Abs(passes[i][2] - scheduled[k][2]) = recal_min - 1
    /\ \E i \in 1 .. Len(passes) :
          /\ ~InSchedule(passes[i])
          /\ \A k \in 1 .. Len(scheduled) :
                Abs(passes[i][2] - scheduled[k][2]) >= recal_min

(* ---- optimize_greedy, what a selection adds (SpecGreedy) ---- *)

RECURSIVE SumNewUnique(_)
SumNewUnique(names) ==
    IF names = {} THEN 0
    ELSE LET n == CHOOSE x \in names : TRUE
         IN  stats[n].new_unique + SumNewUnique(names \ {n})

Min(a, b) == IF a <= b THEN a ELSE b

NoSiteTwice == \A i, j \in 1 .. Len(selected) : i # j => selected[i] # selected[j]

\* C28 as stated: no site is selected twice, the number of selected sites is
\* at most min(num_stations, number of candidates), and the new_unique stats
\* of the selected sites add up to the size of global_observed.
C28_AtMostMinOfKAndCandidates ==
    pc = "done" =>
        /\ NoSiteTwice
        /\ Len(selected) <= Min(num_stations, Len(candidates))
        /\ SumNewUnique(DOMAIN stats) = Cardinality(global_observed)

\* C28 amended: every round that selects a site makes global_observed strictly
\* larger; no site is selected twice; the number of selected sites is at most
\* min(num_stations, number of candidates) when num_stations is not negative,
\* and zero when it is; there is one stats entry per selected site and their
\* new_unique values add up to the size of global_observed.
C28_EverySelectionAddsAnObject ==
    /\ [](/\ NoSiteTwice
          /\ Len(selected) <= Min(IF num_stations < 0 THEN 0 ELSE num_stations,
                                  Len(candidates))
          /\ pc \in {"rounds", "done"} =>
                /\ DOMAIN stats = {selected[i].name : i \in 1 .. Len(selected)}
                /\ SumNewUnique(DOMAIN stats) = Cardinality(global_observed))
    /\ [][(pc = "rounds" /\ selected' # selected) =>
             /\ Cardinality(global_observed') > Cardinality(global_observed)
             /\ global_observed \subseteq global_observed']_vars

C28_Witness ==
    /\ pc = "done" /\ Len(selected) = 2 /\ num_stations = 3 /\ Len(candidates) = 3
    /\ Cardinality(global_observed) = 3
    /\ \E n \in DOMAIN stats : stats[n].new_unique < stats[n].unique_sats

(* ---- run_multi_day_analysis, first collect and station order (SpecMD) ---- *)

\* C29: for every observed object the observation flagged first collect is
\* the one of earliest peak time among all observations of that object, at all
\* stations, over the whole run.
C29_FirstCollectIsEarliest ==
    pc = "done" =>
        \A i \in FirstCollects : \A j \in 1 .. Len(all_observations) :
            all_observations[j].sat_idx = all_observations[i].sat_idx
                => all_observations[i].time_jd <= all_observations[j].time_jd

StationOrders ==
    {f \in [1 .. NumStations -> 1 .. NumStations] :
        \A i, j \in 1 .. NumStations : i # j => f[i] # f[j]}

AsPass(o) == <<o.sat_idx, o.time_jd, o.elevation, o.position>>

(* what station st scheduled in day d of the run that has ended *)
ScheduleOf(d, st) ==
    LET obs == SelectSeq(all_observations, LAMBDA o : o.day = d /\ o.station = st)
    IN  [k \in 1 .. Len(obs) |-> AsPass(obs[k])]

ScheduleTable == [d \in 1 .. NumDays |-> [st \in 1 .. NumStations |-> ScheduleOf(d - 1, st)]]

Unflagged(obs) == {[o EXCEPT !.is_first_collect = FALSE] : o \in {obs[k] : k \in 1 .. Len(obs)}}

\* C30: with the same schedule for every (station, day), every order of the
\* station list gives the same cumulative set and the same day records
\* (observations, unique_today, cumulative) and the same observations up to
\* their order and first-collect flags; in the order of the run itself the
\* observations are the same list.
C30_StationOrderIndependent ==
    pc = "done" =>
        /\ run_multi_day_analysis(ScheduleTable, [k \in 1 .. NumStations |-> k]).all_observations
              = all_observations
        /\ \A order \in StationOrders :
              LET R == run_multi_day_analysis(ScheduleTable, order)
              IN  /\ R.cumulative_observed = cumulative_observed
                  /\ R.daily_stats = daily_stats
                  /\ Len(R.all_observations) = Len(all_observations)
                  /\ Unflagged(R.all_observations) = Unflagged(all_observations)

C30_Witness ==
    /\ pc = "done"
    /\ \E order \in StationOrders :
          LET R == run_multi_day_analysis(ScheduleTable, order)
          IN  /\ R.all_observations # all_observations
              /\ {R.all_observations[k] : k \in 1 .. Len(R.all_observations)}
                    # {all_observations[k] : k \in 1 .. Len(all_observations)}
    /\ \E d \in 1 .. Len(daily_stats) : daily_stats[d].unique_today < daily_stats[d].observations

====
